---- MODULE Spec2Model ----
(***************************************************************************)
(* Voice-controlled MyCobot 320 session (src/Voice.py).                    *)
(*                                                                         *)
(* Text is a sequence of one-character strings.  The en dash and the em    *)
(* dash are the characters "ndash" and "mdash".  Lengths and angles are    *)
(* integers in hundredths of the robot's unit, so START_COORDS[1] = -329.1 *)
(* is -32910 and the float 40.0 is 4000.                                   *)
(***************************************************************************)
EXTENDS Integers, Sequences, FiniteSets, TLC

(***************************************************************************)
(* Bounds of the model.                                                    *)
(***************************************************************************)
\* operator triggers (non-quit prompt inputs) explored in one session
MaxCycles == 2

(***************************************************************************)
(* Configuration parameters, Voice.py 46-54.                               *)
(***************************************************************************)
ZERO_ANGLES == <<0, 0, 0, 0, 0, 0>>
\* mutant: a start pose whose orientation is not the fixed one
START_COORDS_Tilted == <<-32910, 10460, 17910, -17900, -700, 9600>>
START_COORDS == <<-32910, 10460, 17910, -17946, -669, 9557>>
MOVE_SPEED == 30
GRIPPER_SPEED == 100
ORIGINAL_ORIENTATION == <<-17946, -669, 9557>>

(***************************************************************************)
(* Python string primitives, computed character by character.              *)
(***************************************************************************)
Whitespace == {" "}
Digits == {"0", "1", "2", "3", "4", "5", "6", "7", "8", "9"}

DigitVal(c) ==
    CASE c = "0" -> 0 [] c = "1" -> 1 [] c = "2" -> 2 [] c = "3" -> 3
      [] c = "4" -> 4 [] c = "5" -> 5 [] c = "6" -> 6 [] c = "7" -> 7
      [] c = "8" -> 8 [] c = "9" -> 9

\* str.strip(chars): drop every leading and every trailing character of chars
StripChars(s, chars) ==
    LET keep == {i \in 1..Len(s) : s[i] \notin chars}
    IN  IF keep = {} THEN <<>>
        ELSE LET lo == CHOOSE i \in keep : \A j \in keep : i <= j
                 hi == CHOOSE i \in keep : \A j \in keep : j <= i
             IN  SubSeq(s, lo, hi)

\* str.strip()
Strip(s) == StripChars(s, Whitespace)

\* str.lower(), on the letters of the alphabet that have an upper case here
Lower(s) == [i \in 1..Len(s) |-> IF s[i] = "Q" THEN "q" ELSE s[i]]

\* str.replace(old, new) for one-character old and new
Replace(s, old, new) == [i \in 1..Len(s) |-> IF s[i] = old THEN new ELSE s[i]]

\* str.startswith(c), str.endswith(c)
StartsWith(s, c) == Len(s) >= 1 /\ s[1] = c
EndsWith(s, c) == Len(s) >= 1 /\ s[Len(s)] = c

\* str.split(sep): the segments between the separators, empty ones kept
RECURSIVE Split(_, _)
Split(s, sep) ==
    LET at == {i \in 1..Len(s) : s[i] = sep}
    IN  IF at = {} THEN <<s>>
        ELSE LET p == CHOOSE i \in at : \A j \in at : i <= j
             IN  <<SubSeq(s, 1, p - 1)>> \o Split(SubSeq(s, p + 1, Len(s)), sep)

AllDigits(s) == \A i \in 1..Len(s) : s[i] \in Digits

\* value of a digit string (0 for the empty string)
RECURSIVE DigitsVal(_)
DigitsVal(s) ==
    IF Len(s) = 0 THEN 0
    ELSE 10 * DigitsVal(SubSeq(s, 1, Len(s) - 1)) + DigitVal(s[Len(s)])

RECURSIVE Pow10(_)
Pow10(n) == IF n = 0 THEN 1 ELSE 10 * Pow10(n - 1)

ValueError == [ok |-> FALSE, val |-> 0]

\* the sign and the rest of a text that may begin with + or -
SignOf(t) == IF Len(t) >= 1 /\ t[1] = "-" THEN -1 ELSE 1
Unsigned(t) == IF Len(t) >= 1 /\ t[1] \in {"+", "-"} THEN Tail(t) ELSE t

\* index of the first character of s in chars, Len(s) + 1 when there is none
FirstIndex(s, chars) ==
    LET at == {i \in 1..Len(s) : s[i] \in chars}
    IN  IF at = {} THEN Len(s) + 1 ELSE CHOOSE i \in at : \A j \in at : i <= j

Before(s, p) == SubSeq(s, 1, p - 1)
After(s, p) == SubSeq(s, p + 1, Len(s))

\* int(s): optional surrounding whitespace, optional sign, one or more digits
\* (leading zeros allowed)
IntOf(t) ==
    IF Len(Unsigned(t)) >= 1 /\ AllDigits(Unsigned(t))
    THEN [ok |-> TRUE, val |-> SignOf(t) * DigitsVal(Unsigned(t))]
    ELSE ValueError

ParseInt(s) == IntOf(Strip(s))

\* float(s): optional surrounding whitespace, optional sign, digits with an
\* optional point, optional exponent.  The value is in hundredths; digits
\* past the second decimal are dropped.
Mantissa(ip, fp) ==
    IF AllDigits(ip) /\ AllDigits(fp) /\ Len(ip) + Len(fp) >= 1
    THEN [ok |-> TRUE,
          val |-> 100 * DigitsVal(ip) + DigitsVal(SubSeq(fp \o <<"0", "0">>, 1, 2))]
    ELSE ValueError

Exponent(present, expo) ==
    IF ~present THEN [ok |-> TRUE, val |-> 0]
    ELSE IF Len(Unsigned(expo)) >= 1 /\ AllDigits(Unsigned(expo))
    THEN [ok |-> TRUE, val |-> SignOf(expo) * DigitsVal(Unsigned(expo))]
    ELSE ValueError

Scaled(hundredths, exp) ==
    IF exp >= 0 THEN hundredths * Pow10(exp) ELSE hundredths \div Pow10(-exp)

FloatOf(sgn, m, e) ==
    IF m.ok /\ e.ok THEN [ok |-> TRUE, val |-> sgn * Scaled(m.val, e.val)]
    ELSE ValueError

MantissaOf(mant, dp) == Mantissa(Before(mant, dp), After(mant, dp))

FloatBody(sgn, body, ep) ==
    FloatOf(sgn,
            MantissaOf(Before(body, ep), FirstIndex(Before(body, ep), {"."})),
            Exponent(ep <= Len(body), After(body, ep)))

FloatOfText(t) == FloatBody(SignOf(t), Unsigned(t), FirstIndex(Unsigned(t), {"e", "E"}))

ParseFloat(s) == FloatOfText(Strip(s))

(***************************************************************************)
(* parse_and_apply_command, Voice.py 129-169.                              *)
(***************************************************************************)
GwCall(op, args, res) == [op |-> op, args |-> args, res |-> res]

\* mutant: the em dash is not replaced
CoordStr_EnDashOnly(cmd_str) ==
    Replace(StripChars(cmd_str, {"[", "]"}), "ndash", "-")

\* line 142: strip the brackets and turn en/em dashes into hyphens
CoordStr(cmd_str) ==
    Replace(Replace(StripChars(cmd_str, {"[", "]"}), "ndash", "-"), "mdash", "-")

\* line 143: float(x.strip()) of every comma-separated segment
Parts(cmd_str) ==
    LET segs == Split(CoordStr(cmd_str), ",")
    IN  [i \in 1..Len(segs) |-> ParseFloat(Strip(segs[i]))]

\* mutant: the target keeps the orientation that was read
NewCoords_LiveOrientation(current_coords, parts) ==
    <<current_coords[1] + parts[1], current_coords[2] + parts[2],
      current_coords[3] + parts[3]>> \o SubSeq(current_coords, 4, 6)

\* lines 150-154: read position plus delta, then the fixed orientation
NewCoords(current_coords, parts) ==
    <<current_coords[1] + parts[1], current_coords[2] + parts[2],
      current_coords[3] + parts[3]>> \o ORIGINAL_ORIENTATION

\* mutant: the pose is read before the text is parsed
CoordinateBranch_ReadFirst(cmd_str, pose, gc, sc) ==
    LET fl == Parts(cmd_str)
        parts == [i \in 1..Len(fl) |-> fl[i].val]
        read == GwCall("get_coords", <<>>, gc)
        new_coords == NewCoords(pose, parts)
        send == GwCall("send_coords", <<new_coords, MOVE_SPEED, 1>>, sc)
    IN  IF gc # "ok"
        THEN [calls |-> <<read>>, diag |-> "Error parsing or applying command",
              read |-> <<>>, moved |-> <<>>]
        ELSE IF \E i \in 1..Len(fl) : ~fl[i].ok
        THEN [calls |-> <<read>>, diag |-> "Error parsing or applying command",
              read |-> pose, moved |-> <<>>]
        ELSE IF Len(fl) # 3
        THEN [calls |-> <<read>>, diag |-> "Invalid coordinate change length",
              read |-> pose, moved |-> <<>>]
        ELSE IF sc # "ok"
        THEN [calls |-> <<read, send>>,
              diag |-> "Error parsing or applying command",
              read |-> pose, moved |-> <<>>]
        ELSE [calls |-> <<read, send>>, diag |-> "New target coordinates",
              read |-> pose, moved |-> new_coords]

\* mutant: the length is checked after the move, so a list of more than three
\* numbers moves the arm by its first three before it is reported
CoordinateBranch_CheckAfterSend(cmd_str, pose, gc, sc) ==
    LET fl == Parts(cmd_str)
        parts == [i \in 1..Len(fl) |-> fl[i].val]
        read == GwCall("get_coords", <<>>, gc)
        new_coords == NewCoords(pose, parts)
        send == GwCall("send_coords", <<new_coords, MOVE_SPEED, 1>>, sc)
    IN  IF \E i \in 1..Len(fl) : ~fl[i].ok
        THEN [calls |-> <<>>, diag |-> "Error parsing or applying command",
              read |-> <<>>, moved |-> <<>>]
        ELSE IF gc # "ok"
        THEN [calls |-> <<read>>, diag |-> "Error parsing or applying command",
              read |-> <<>>, moved |-> <<>>]
        ELSE IF Len(fl) < 3
        THEN [calls |-> <<read>>, diag |-> "Error parsing or applying command",
              read |-> pose, moved |-> <<>>]
        ELSE IF sc # "ok"
        THEN [calls |-> <<read, send>>,
              diag |-> "Error parsing or applying command",
              read |-> pose, moved |-> <<>>]
        ELSE IF Len(fl) # 3
        THEN [calls |-> <<read, send>>, diag |-> "Invalid coordinate change length",
              read |-> pose, moved |-> new_coords]
        ELSE [calls |-> <<read, send>>, diag |-> "New target coordinates",
              read |-> pose, moved |-> new_coords]

\* lines 142-156: the bracketed branch.  pose is what get_coords returns,
\* gc and sc are the outcomes of get_coords and send_coords.
CoordinateBranch(cmd_str, pose, gc, sc) ==
    LET fl == Parts(cmd_str)
        parts == [i \in 1..Len(fl) |-> fl[i].val]
        read == GwCall("get_coords", <<>>, gc)
        new_coords == NewCoords(pose, parts)
        send == GwCall("send_coords", <<new_coords, MOVE_SPEED, 1>>, sc)
    IN  IF \E i \in 1..Len(fl) : ~fl[i].ok
        THEN [calls |-> <<>>, diag |-> "Error parsing or applying command",
              read |-> <<>>, moved |-> <<>>]
        ELSE IF Len(fl) # 3
        THEN [calls |-> <<>>, diag |-> "Invalid coordinate change length",
              read |-> <<>>, moved |-> <<>>]
        ELSE IF gc # "ok"
        THEN [calls |-> <<read>>, diag |-> "Error parsing or applying command",
              read |-> <<>>, moved |-> <<>>]
        ELSE IF sc # "ok"
        THEN [calls |-> <<read, send>>,
              diag |-> "Error parsing or applying command",
              read |-> pose, moved |-> <<>>]
        ELSE [calls |-> <<read, send>>, diag |-> "New target coordinates",
              read |-> pose, moved |-> new_coords]

\* mutant: open and close are swapped
GripperBranch_Swapped(cmd_str, sg) ==
    LET cmd_val == ParseInt(cmd_str)
        set(v) == GwCall("set_gripper_state", <<v, GRIPPER_SPEED>>, sg)
    IN  IF ~cmd_val.ok
        THEN [calls |-> <<>>, diag |-> "Error parsing or applying command",
              read |-> <<>>, moved |-> <<>>]
        ELSE IF cmd_val.val \in {0, 1}
        THEN [calls |-> <<set(1 - cmd_val.val)>>,
              diag |-> IF sg # "ok" THEN "Error parsing or applying command"
                       ELSE IF cmd_val.val = 0 THEN "Opening gripper"
                       ELSE "Closing gripper",
              read |-> <<>>, moved |-> <<>>]
        ELSE [calls |-> <<>>, diag |-> "Unrecognized gripper command",
              read |-> <<>>, moved |-> <<>>]

\* lines 159-167: the gripper branch.  sg is the outcome of set_gripper_state.
GripperBranch(cmd_str, sg) ==
    LET cmd_val == ParseInt(cmd_str)
        set(v) == GwCall("set_gripper_state", <<v, GRIPPER_SPEED>>, sg)
    IN  IF ~cmd_val.ok
        THEN [calls |-> <<>>, diag |-> "Error parsing or applying command",
              read |-> <<>>, moved |-> <<>>]
        ELSE IF cmd_val.val = 0
        THEN [calls |-> <<set(0)>>,
              diag |-> IF sg = "ok" THEN "Opening gripper"
                       ELSE "Error parsing or applying command",
              read |-> <<>>, moved |-> <<>>]
        ELSE IF cmd_val.val = 1
        THEN [calls |-> <<set(1)>>,
              diag |-> IF sg = "ok" THEN "Closing gripper"
                       ELSE "Error parsing or applying command",
              read |-> <<>>, moved |-> <<>>]
        ELSE [calls |-> <<>>, diag |-> "Unrecognized gripper command",
              read |-> <<>>, moved |-> <<>>]

\* line 140: the shape test that picks the branch
IsBracketed(cmd_str) == StartsWith(cmd_str, "[") /\ EndsWith(cmd_str, "]")

parse_and_apply_command(cmd_str, pose, gc, sc, sg) ==
    IF IsBracketed(cmd_str)
    THEN CoordinateBranch(cmd_str, pose, gc, sc)
    ELSE GripperBranch(cmd_str, sg)

(***************************************************************************)
(* Inputs: what the operator types, what the transcriber and the oracle    *)
(* return.                                                                 *)
(***************************************************************************)
RECURSIVE Join(_)
Join(segs) ==
    IF Len(segs) = 0 THEN <<>>
    ELSE IF Len(segs) = 1 THEN segs[1]
    ELSE segs[1] \o <<",">> \o Join(Tail(segs))

Bracket(segs) == <<"[">> \o Join(segs) \o <<"]">>

\* segments met in bracketed oracle replies: 0, en-dash 40, a
Segments == {<<"0">>, <<"ndash", "4", "0">>, <<"a">>}

\* every three-segment list over Segments
ThreeSegmentTexts == {Bracket(<<a, b, c>>) : a \in Segments, b \in Segments, c \in Segments}

\* other bracket-shaped replies: [0, 40, 0]  [0,40,0]  [0, 40]  [0,40,0,5]
\* [a,40,0]  [0, -40, 0] with hyphen, en dash, em dash  [[1,2,3]]  [1,2,3]]
\* [1]  []  [1e1,0,0.5]  [0,,0]  [+40,0,-0]  [-40,en-dash 40,em-dash 40]
OtherBracketTexts ==
    {Bracket(<<<<"0">>, <<" ", "4", "0">>, <<" ", "0">>>>),
     Bracket(<<<<"0">>, <<"4", "0">>, <<"0">>>>),
     Bracket(<<<<"0">>, <<" ", "4", "0">>>>),
     Bracket(<<<<"0">>, <<"4", "0">>, <<"0">>, <<"5">>>>),
     Bracket(<<<<"a">>, <<"4", "0">>, <<"0">>>>),
     Bracket(<<<<"0">>, <<" ", "-", "4", "0">>, <<" ", "0">>>>),
     Bracket(<<<<"0">>, <<" ", "ndash", "4", "0">>, <<" ", "0">>>>),
     Bracket(<<<<"0">>, <<" ", "mdash", "4", "0">>, <<" ", "0">>>>),
     <<"[">> \o Bracket(<<<<"1">>, <<"2">>, <<"3">>>>) \o <<"]">>,
     Bracket(<<<<"1">>, <<"2">>, <<"3">>>>) \o <<"]">>,
     Bracket(<<<<"1">>>>),
     Bracket(<<>>),
     Bracket(<<<<"1", "e", "1">>, <<"0">>, <<"0", ".", "5">>>>),
     Bracket(<<<<"0">>, <<>>, <<"0">>>>),
     Bracket(<<<<"+", "4", "0">>, <<"0">>, <<"-", "0">>>>),
     Bracket(<<<<"-", "4", "0">>, <<"ndash", "4", "0">>, <<"mdash", "4", "0">>>>)}

\* replies that are not bracket-shaped: 0  1  2  01  +1  -0  -1  " 1 "  1.0
\* the empty reply, a blank reply, "[", "1]", "close the gripper"
PlainTexts ==
    {<<"0">>, <<"1">>, <<"2">>, <<"0", "1">>, <<"+", "1">>, <<"-", "0">>,
     <<"-", "1">>, <<" ", "1", " ">>, <<"1", ".", "0">>, <<>>, <<" ">>,
     <<"[">>, <<"1", "]">>,
     <<"c", "l", "o", "s", "e", " ", "t", "h", "e", " ",
       "g", "r", "i", "p", "p", "e", "r">>}

\* message contents the oracle can return
OracleContents == ThreeSegmentTexts \cup OtherBracketTexts \cup PlainTexts

\* texts the transcriber can return: ""  "hi"  " hi "  "yes"
TranscriberTexts ==
    {<<>>, <<"h", "i">>, <<" ", "h", "i", " ">>, <<"y", "e", "s">>}

\* lines the operator can type: ""  " "  "q"  "Q"  " q "  "x"
ConsoleLines ==
    {<<>>, <<" ">>, <<"q">>, <<"Q">>, <<" ", "q", " ">>, <<"x">>}

\* orientations get_coords can report: the fixed one and a drifted one
LiveOrientations == {ORIGINAL_ORIENTATION, <<-17900, -700, 9600>>}

\* an external call returns or raises
Outcomes == {"ok", "raise"}

\* Python's None where a text is expected
None == <<"None">>
ExternalPushes == {<<700, 0, -300>>}

(***************************************************************************)
(* State of main(), Voice.py 171-238.                                      *)
(***************************************************************************)
VARIABLES
    pc,             \* position in main()
    cycles,         \* loop iterations started
    user_input,     \* line 207
    audio,          \* line 213
    text_command,   \* line 217
    generated_cmd,  \* line 223
    current_coords, \* line 148, <<>> when the last application read no pose
    robot,          \* target of the last move the gateway accepted
    calls,          \* gateway calls since the last console read, in order
    stages,         \* pipeline functions called since the last console read
    diag,           \* the last console message of the session
    pushed,         \* displacement of the arm by hand since that move
    deltas,         \* sum of the deltas of the moves the gateway accepted
    pushes,         \* sum of the displacements by hand since startup
    robot_command,  \* test.py line 122
    outcomes        \* what microphone, transcriber and oracle give test.py

arm == <<pushed, deltas, pushes>>
dry == <<robot_command, outcomes>>

vars == <<pc, cycles, user_input, audio, text_command, generated_cmd,
          current_coords, robot, calls, stages, diag, arm, dry>>

Zero3 == <<0, 0, 0>>
VecAdd(a, b) == [i \in 1..3 |-> a[i] + b[i]]
Position(pose) == SubSeq(pose, 1, 3)

Init ==
    /\ pc = "connect"
    /\ cycles = 0
    /\ user_input = None
    /\ audio = "unset"
    /\ text_command = None
    /\ generated_cmd = None
    /\ current_coords = <<>>
    /\ robot = [kind |-> "unknown", val |-> <<>>]
    /\ calls = <<>>
    /\ stages = <<>>
    /\ diag = "none"
    /\ pushed = Zero3
    /\ deltas = Zero3
    /\ pushes = Zero3
    /\ robot_command = None
    /\ outcomes = <<>>

\* lines 173-181
Connect ==
    /\ pc = "connect"
    /\ \E conn \in Outcomes, focus \in Outcomes :
        /\ calls' = IF conn = "ok"
                    THEN <<GwCall("MyCobot320Socket", <<>>, conn),
                           GwCall("focus_all_servos", <<>>, focus)>>
                    ELSE <<GwCall("MyCobot320Socket", <<>>, conn)>>
        /\ IF conn = "ok" /\ focus = "ok"
           THEN pc' = "gripper_mode" /\ diag' = "Connecting"
           ELSE pc' = "exit" /\ diag' = "Error initializing robot"
    /\ UNCHANGED <<arm, dry, cycles, user_input, audio, text_command, generated_cmd,
                   current_coords, robot, stages>>

\* lines 184-191
SetGripperMode ==
    /\ pc = "gripper_mode"
    /\ \E out \in Outcomes :
        /\ calls' = Append(calls, GwCall("set_gripper_mode", <<0>>, out))
        /\ IF out = "ok"
           THEN pc' = "positioning" /\ diag' = "Gripper mode set"
           ELSE pc' = "exit" /\ diag' = "Error setting gripper mode"
    /\ UNCHANGED <<arm, dry, cycles, user_input, audio, text_command, generated_cmd,
                   current_coords, robot, stages>>

\* mutant: the start pose is commanded before the zero position
InitialPositioning_StartFirst ==
    /\ pc = "positioning"
    /\ \E zero \in Outcomes, start \in Outcomes :
        LET angles == GwCall("send_angles", <<ZERO_ANGLES, MOVE_SPEED>>, zero)
            coords == GwCall("send_coords", <<START_COORDS, MOVE_SPEED, 1>>, start)
        IN  /\ calls' = IF start = "ok" THEN calls \o <<coords, angles>>
                        ELSE Append(calls, coords)
            /\ robot' = IF start # "ok" THEN robot
                        ELSE IF zero # "ok"
                        THEN [kind |-> "coords", val |-> START_COORDS]
                        ELSE [kind |-> "angles", val |-> ZERO_ANGLES]
            /\ IF zero = "ok" /\ start = "ok"
               THEN pc' = "prompt" /\ diag' = "Moving robot to starting coordinates"
               ELSE pc' = "exit" /\ diag' = "Error during initial positioning"
    /\ UNCHANGED <<arm, dry, cycles, user_input, audio, text_command, generated_cmd,
                   current_coords, stages>>

\* lines 194-203
InitialPositioning ==
    /\ pc = "positioning"
    /\ \E zero \in Outcomes, start \in Outcomes :
        LET angles == GwCall("send_angles", <<ZERO_ANGLES, MOVE_SPEED>>, zero)
            coords == GwCall("send_coords", <<START_COORDS, MOVE_SPEED, 1>>, start)
        IN  /\ calls' = IF zero = "ok" THEN calls \o <<angles, coords>>
                        ELSE Append(calls, angles)
            /\ robot' = IF zero # "ok" THEN robot
                        ELSE IF start # "ok"
                        THEN [kind |-> "angles", val |-> ZERO_ANGLES]
                        ELSE [kind |-> "coords", val |-> START_COORDS]
            /\ IF zero = "ok" /\ start = "ok"
               THEN pc' = "prompt" /\ diag' = "Moving robot to starting coordinates"
               ELSE pc' = "exit" /\ diag' = "Error during initial positioning"
    /\ UNCHANGED <<arm, dry, cycles, user_input, audio, text_command, generated_cmd,
                   current_coords, stages>>

\* lines 207-210: read a line; q leaves the loop, anything else goes on
Prompt ==
    /\ pc = "prompt"
    /\ \E line \in ConsoleLines :
        /\ user_input' = Strip(line)
        /\ IF Lower(Strip(line)) = <<"q">>
           THEN /\ pc' = "shutdown"
                /\ diag' = "Exiting voice control loop"
                /\ cycles' = cycles
           ELSE /\ cycles < MaxCycles
                /\ pc' = "record"
                /\ diag' = "none"
                /\ cycles' = cycles + 1
    /\ calls' = <<>>
    /\ stages' = <<>>
    /\ UNCHANGED <<arm, dry, audio, text_command, generated_cmd, current_coords, robot>>

\* mutant: a capture error is not caught and ends the session
RecordAudio_Propagates ==
    /\ pc = "record"
    /\ stages' = Append(stages, "record_audio")
    /\ \E out \in Outcomes :
        IF out = "ok"
        THEN audio' = "buffer" /\ pc' = "transcribe" /\ diag' = "Recording audio"
        ELSE audio' = "None" /\ pc' = "exit" /\ diag' = "Audio recording failed"
    /\ UNCHANGED <<arm, dry, cycles, user_input, text_command, generated_cmd,
                   current_coords, robot, calls>>

\* mutant: a failed capture is tried again without asking the operator
RecordAudio_Retry ==
    /\ pc = "record"
    /\ Len(stages) < 3
    /\ stages' = Append(stages, "record_audio")
    /\ \E out \in Outcomes :
        IF out = "ok"
        THEN audio' = "buffer" /\ pc' = "transcribe" /\ diag' = "Recording audio"
        ELSE audio' = "None" /\ pc' = "record" /\ diag' = "Audio recording failed"
    /\ UNCHANGED <<arm, dry, cycles, user_input, text_command, generated_cmd,
                   current_coords, robot, calls>>

\* lines 213-216 with record_audio, lines 81-90
RecordAudio ==
    /\ pc = "record"
    /\ stages' = Append(stages, "record_audio")
    /\ \E out \in Outcomes :
        IF out = "ok"
        THEN audio' = "buffer" /\ pc' = "transcribe" /\ diag' = "Recording audio"
        ELSE audio' = "None" /\ pc' = "prompt" /\ diag' = "Audio recording failed"
    /\ UNCHANGED <<arm, dry, cycles, user_input, text_command, generated_cmd,
                   current_coords, robot, calls>>

\* lines 92-103: the stripped text, or "" when the transcriber raises
transcribe_audio(out, text) == IF out = "ok" THEN Strip(text) ELSE <<>>

\* mutant: the threshold is off by one
TooShort_OffByOne(text) == Len(text) < 2

\* line 218
TooShort(text) == Len(text) < 3

\* lines 217-220
TranscribeAudio ==
    /\ pc = "transcribe"
    /\ stages' = Append(stages, "transcribe_audio")
    /\ \E out \in Outcomes, text \in TranscriberTexts :
        /\ text_command' = transcribe_audio(out, text)
        /\ IF TooShort(text_command')
           THEN pc' = "prompt" /\ diag' = "Transcribed command is too short or unclear"
           ELSE pc' = "interpret" /\ diag' = "Transcribed text"
    /\ UNCHANGED <<arm, dry, cycles, user_input, audio, generated_cmd, current_coords,
                   robot, calls>>

\* lines 105-127: the stripped content, or None when the call raises
interpret_command(out, content) == IF out = "ok" THEN Strip(content) ELSE None

\* mutant: only None is tested, the empty reply passes
Falsy_NoneOnly(text) == text = None

\* line 224: not generated_cmd
Falsy(text) == text = None \/ text = <<>>

\* lines 223-226
InterpretCommand ==
    /\ pc = "interpret"
    /\ stages' = Append(stages, "interpret_command")
    /\ \E out \in Outcomes, content \in OracleContents :
        /\ generated_cmd' = interpret_command(out, content)
        /\ IF Falsy(generated_cmd')
           THEN pc' = "prompt" /\ diag' = "Failed to generate a robot command"
           ELSE pc' = "apply" /\ diag' = "generated command"
    /\ UNCHANGED <<arm, dry, cycles, user_input, audio, text_command, current_coords,
                   robot, calls>>

\* mutant: the pose read in an earlier cycle is used again
ParseAndApply_Cached ==
    /\ pc = "apply"
    /\ stages' = Append(stages, "parse_and_apply_command")
    /\ \E live \in LiveOrientations, gc \in Outcomes, sc \in Outcomes, sg \in Outcomes :
        LET pose == IF current_coords # <<>> THEN current_coords
                    ELSE VecAdd(Position(robot.val), pushed) \o live
            r == parse_and_apply_command(generated_cmd, pose, gc, sc, sg)
        IN  /\ calls' = calls \o r.calls
            /\ diag' = r.diag
            /\ current_coords' = r.read
            /\ robot' = IF r.moved = <<>> THEN robot
                        ELSE [kind |-> "coords", val |-> r.moved]
            /\ pushed' = IF r.moved = <<>> THEN pushed ELSE Zero3
            /\ deltas' = IF r.moved = <<>> THEN deltas
                         ELSE VecAdd(deltas, [i \in 1..3 |-> Parts(generated_cmd)[i].val])
    /\ pc' = "prompt"
    /\ UNCHANGED <<cycles, user_input, audio, text_command, generated_cmd,
                   pushes, dry>>

\* mutant: an error of parsing or of the gateway is not caught and ends main()
ParseAndApply_Propagates ==
    /\ pc = "apply"
    /\ stages' = Append(stages, "parse_and_apply_command")
    /\ \E live \in LiveOrientations, gc \in Outcomes, sc \in Outcomes, sg \in Outcomes :
        LET pose == VecAdd(Position(robot.val), pushed) \o live
            r == parse_and_apply_command(generated_cmd, pose, gc, sc, sg)
        IN  /\ calls' = calls \o r.calls
            /\ diag' = r.diag
            /\ current_coords' = r.read
            /\ robot' = IF r.moved = <<>> THEN robot
                        ELSE [kind |-> "coords", val |-> r.moved]
            /\ pushed' = IF r.moved = <<>> THEN pushed ELSE Zero3
            /\ deltas' = IF r.moved = <<>> THEN deltas
                         ELSE VecAdd(deltas, [i \in 1..3 |-> Parts(generated_cmd)[i].val])
            /\ pc' = IF r.diag = "Error parsing or applying command"
                     THEN "exit" ELSE "prompt"
    /\ UNCHANGED <<cycles, user_input, audio, text_command, generated_cmd,
                   pushes, dry>>

\* lines 229-230 with parse_and_apply_command
ParseAndApply ==
    /\ pc = "apply"
    /\ stages' = Append(stages, "parse_and_apply_command")
    /\ \E live \in LiveOrientations, gc \in Outcomes, sc \in Outcomes, sg \in Outcomes :
        LET pose == VecAdd(Position(robot.val), pushed) \o live
            r == parse_and_apply_command(generated_cmd, pose, gc, sc, sg)
        IN  /\ calls' = calls \o r.calls
            /\ diag' = r.diag
            /\ current_coords' = r.read
            /\ robot' = IF r.moved = <<>> THEN robot
                        ELSE [kind |-> "coords", val |-> r.moved]
            /\ pushed' = IF r.moved = <<>> THEN pushed ELSE Zero3
            /\ deltas' = IF r.moved = <<>> THEN deltas
                         ELSE VecAdd(deltas, [i \in 1..3 |-> Parts(generated_cmd)[i].val])
    /\ pc' = "prompt"
    /\ UNCHANGED <<cycles, user_input, audio, text_command, generated_cmd,
                   pushes, dry>>

\* line 148: the pose is the gateway's to report; between two cycles, while
\* main() waits in input() (line 207), the arm can be displaced from outside
ExternalMove ==
    /\ pc = "prompt"
    /\ pushed = Zero3
    /\ \E push \in ExternalPushes :
        /\ pushed' = push
        /\ pushes' = VecAdd(pushes, push)
    /\ UNCHANGED <<pc, cycles, user_input, audio, text_command, generated_cmd,
                   current_coords, robot, calls, stages, diag, deltas, dry>>

\* mutant: the loop is left without the return to the zero position
Shutdown_NoReturn ==
    /\ pc = "shutdown"
    /\ diag' = "Returning robot to zero position"
    /\ pc' = "done"
    /\ UNCHANGED <<arm, dry, cycles, user_input, audio, text_command, generated_cmd,
                   current_coords, robot, calls, stages>>

\* lines 233-238
Shutdown ==
    /\ pc = "shutdown"
    /\ \E out \in Outcomes :
        /\ calls' = Append(calls, GwCall("send_angles", <<ZERO_ANGLES, MOVE_SPEED>>, out))
        /\ robot' = IF out = "ok" THEN [kind |-> "angles", val |-> ZERO_ANGLES]
                    ELSE robot
        /\ pushed' = IF out = "ok" THEN Zero3 ELSE pushed
        /\ diag' = IF out = "ok" THEN "Returning robot to zero position"
                   ELSE "Error returning to zero position"
    /\ pc' = "done"
    /\ UNCHANGED <<deltas, pushes, dry, cycles, user_input, audio, text_command, generated_cmd,
                   current_coords, stages>>

Next ==
    \/ Connect
    \/ SetGripperMode
    \/ InitialPositioning
    \/ Prompt
    \/ RecordAudio
    \/ TranscribeAudio
    \/ InterpretCommand
    \/ ParseAndApply
    \/ Shutdown

Spec == Init /\ [][Next]_vars

\* line 229: the call of parse_and_apply_command comes back to the loop.  At
\* pc = "apply" the only step of Next is ParseAndApply, and it always goes to
\* the prompt, so fairness of this change of pc is fairness of ParseAndApply
ApplyReturns == pc = "apply" /\ pc' = "prompt"

\* every external call returns or raises: a stage that was entered completes
FairSpec ==
    /\ Spec
    /\ WF_vars(RecordAudio)
    /\ WF_vars(TranscribeAudio)
    /\ WF_vars(InterpretCommand)
    /\ WF_pc(ApplyReturns)
    /\ WF_vars(Shutdown)

\* the session in a world where the arm is also moved from outside
NextExt == Next \/ ExternalMove

SpecExt == Init /\ [][NextExt]_vars

(***************************************************************************)
(* test.py: one pass of capture, transcription and oracle, then the        *)
(* command is printed.  It shares pc, audio, text_command, stages and diag *)
(* with the session above; what its three external calls give is drawn     *)
(* once, in outcomes, so that both programs can be asked about the same    *)
(* outcomes.                                                               *)
(***************************************************************************)
\* test.py lines 58-67
dry_record_audio(out) == IF out = "ok" THEN "buffer" ELSE "None"

\* test.py lines 69-80
dry_transcribe_audio(out, text) == IF out = "ok" THEN Strip(text) ELSE <<>>

\* test.py lines 82-106
dry_interpret_command(out, content) == IF out = "ok" THEN Strip(content) ELSE None

\* mutant: only an empty transcript is refused
dry_TooShort_EmptyOnly(text) == Len(text) < 1

\* test.py line 117
dry_TooShort(text) == Len(text) < 3

\* test.py line 123: not robot_command
dry_Falsy(text) == text = None \/ text = <<>>

DryOutcomes ==
    [rec : Outcomes, tr : Outcomes, text : TranscriberTexts,
     orc : Outcomes, content : OracleContents]

DryInit ==
    /\ pc = "dry_record"
    /\ cycles = 0
    /\ user_input = None
    /\ audio = "unset"
    /\ text_command = None
    /\ generated_cmd = None
    /\ current_coords = <<>>
    /\ robot = [kind |-> "unknown", val |-> <<>>]
    /\ calls = <<>>
    /\ stages = <<>>
    /\ diag = "none"
    /\ pushed = Zero3
    /\ deltas = Zero3
    /\ pushes = Zero3
    /\ robot_command = None
    /\ outcomes \in DryOutcomes

\* test.py lines 110-113
DryRecord ==
    /\ pc = "dry_record"
    /\ stages' = Append(stages, "record_audio")
    /\ audio' = dry_record_audio(outcomes.rec)
    /\ IF audio' = "None"
       THEN pc' = "dry_done" /\ diag' = "Audio recording failed"
       ELSE pc' = "dry_transcribe" /\ diag' = "Recording audio"
    /\ UNCHANGED <<cycles, user_input, text_command, generated_cmd, current_coords,
                   robot, calls, arm, dry>>

\* test.py lines 116-119
DryTranscribe ==
    /\ pc = "dry_transcribe"
    /\ stages' = Append(stages, "transcribe_audio")
    /\ text_command' = dry_transcribe_audio(outcomes.tr, outcomes.text)
    /\ IF dry_TooShort(text_command')
       THEN pc' = "dry_done" /\ diag' = "Transcribed command is too short or unclear"
       ELSE pc' = "dry_interpret" /\ diag' = "Transcribed text"
    /\ UNCHANGED <<cycles, user_input, audio, generated_cmd, current_coords,
                   robot, calls, arm, dry>>

\* test.py lines 122-125
DryInterpret ==
    /\ pc = "dry_interpret"
    /\ stages' = Append(stages, "interpret_command")
    /\ robot_command' = dry_interpret_command(outcomes.orc, outcomes.content)
    /\ IF dry_Falsy(robot_command')
       THEN pc' = "dry_done" /\ diag' = "Failed to generate a robot command"
       ELSE pc' = "dry_print" /\ diag' = "generated command"
    /\ UNCHANGED <<cycles, user_input, audio, text_command, generated_cmd,
                   current_coords, robot, calls, arm, outcomes>>

\* test.py lines 128-129
DryPrint ==
    /\ pc = "dry_print"
    /\ diag' = "Final constructed MyCobot command"
    /\ pc' = "dry_done"
    /\ UNCHANGED <<cycles, user_input, audio, text_command, generated_cmd,
                   current_coords, robot, calls, stages, arm, dry>>

DryNext ==
    \/ DryRecord
    \/ DryTranscribe
    \/ DryInterpret
    \/ DryPrint

\* every external call of test.py returns or raises
DrySpec == DryInit /\ [][DryNext]_vars /\ WF_vars(DryNext)

(***************************************************************************)
(* Outcome of a cycle, read off the console: the messages of lines 145,    *)
(* 167, 169, 215, 219 and 225 report a failed cycle.                       *)
(***************************************************************************)
FailureMessages ==
    {"Audio recording failed", "Transcribed command is too short or unclear",
     "Failed to generate a robot command", "Invalid coordinate change length",
     "Unrecognized gripper command", "Error parsing or applying command"}

\* the loop is back at the prompt after running at least one stage
CycleEnded == pc = "prompt" /\ stages # <<>>
Ran(stage) == \E i \in 1..Len(stages) : stages[i] = stage
Applied == CycleEnded /\ Ran("parse_and_apply_command")
Failed == CycleEnded /\ diag \in FailureMessages
Actuated == CycleEnded /\ diag \notin FailureMessages

IsOp(c, op) == c.op = op
CallsOf(op) == SelectSeq(calls, LAMBDA c : IsOp(c, op))
Actuations == SelectSeq(calls, LAMBDA c : c.op \in {"send_coords", "set_gripper_state"})

\* the text holds a delta: three segments, each a number
ValidDelta(text) ==
    /\ IsBracketed(text)
    /\ Len(Parts(text)) = 3
    /\ \A i \in 1..3 : Parts(text)[i].ok
Delta(text) == [i \in 1..3 |-> Parts(text)[i].val]

\* the text holds a gripper command: an integer that is 0 or 1
ValidGripper(text) ==
    /\ ~IsBracketed(text)
    /\ ParseInt(text).ok
    /\ ParseInt(text).val \in {0, 1}

(***************************************************************************)
(* C1: a validated delta (dx,dy,dz) applied to a pose (x,y,z,rx,ry,rz)     *)
(* that get_coords returned gives exactly one send_coords call, to         *)
(* (x+dx, y+dy, z+dz) with the orientation (-179.46, -6.69, 95.57), at     *)
(* MOVE_SPEED, mode 1, whatever (rx,ry,rz) was.                            *)
(***************************************************************************)
C1_DeltaApplication ==
    (Applied /\ ValidDelta(generated_cmd) /\ current_coords # <<>>) =>
        /\ Len(CallsOf("send_coords")) = 1
        /\ CallsOf("send_coords")[1].args =
              << <<current_coords[1] + Delta(generated_cmd)[1],
                   current_coords[2] + Delta(generated_cmd)[2],
                   current_coords[3] + Delta(generated_cmd)[3],
                   -17946, -669, 9557>>, 30, 1 >>

\* a non-zero delta was applied to a pose read with a drifted orientation
C1_Witness ==
    /\ Applied /\ ValidDelta(generated_cmd) /\ current_coords # <<>>
    /\ Delta(generated_cmd) # <<0, 0, 0>>
    /\ SubSeq(current_coords, 4, 6) # ORIGINAL_ORIENTATION
    /\ Len(CallsOf("send_coords")) = 1
    /\ CallsOf("send_coords")[1].res = "ok"

(***************************************************************************)
(* C2: a text the parser rejects (a bracketed list with a non-numeric      *)
(* segment or not three segments, plain text that is no integer, or an     *)
(* integer other than 0 and 1) causes no gateway call at all; the cycle    *)
(* ends Failed, back at the prompt.                                        *)
(***************************************************************************)
Rejected(text) == ~ValidDelta(text) /\ ~ValidGripper(text)

C2_ParseErrorNoGateway ==
    (Ran("parse_and_apply_command") /\ pc = "prompt" /\ Rejected(generated_cmd)) =>
        calls = <<>> /\ Failed

\* "close the gripper" was rejected
C2_Witness ==
    /\ Applied /\ Rejected(generated_cmd)
    /\ Len(generated_cmd) = 17 /\ generated_cmd[1] = "c"
    /\ calls = <<>>

(***************************************************************************)
(* C3, as stated: a cycle that ends Failed, whatever the failing stage     *)
(* (gateway errors of send_coords and set_gripper_state included), has     *)
(* made no send_coords and no set_gripper_state invocation.                *)
(***************************************************************************)
C3_FailedMadeNoActuation == Failed => Actuations = <<>>

(***************************************************************************)
(* C3, amended: a step that ends a cycle Failed leaves the last pose the   *)
(* gateway accepted unchanged, and the cycle holds no send_coords or       *)
(* set_gripper_state invocation other than the one whose own error is the  *)
(* failure: that call is the cycle's last gateway call and it raised.      *)
(***************************************************************************)
C3_FailedLeavesPose ==
    [][(pc' = "prompt" /\ stages' # <<>> /\ diag' \in FailureMessages) =>
          /\ robot' = robot
          /\ Len(Actuations') <= 1
          /\ Actuations' # <<>> =>
                /\ Actuations'[1] = calls'[Len(calls')]
                /\ Actuations'[1].res = "raise"
                /\ diag' = "Error parsing or applying command"]_vars

\* a cycle failed because send_coords raised
C3_Witness ==
    /\ Failed
    /\ Len(calls) = 2
    /\ calls[2].op = "send_coords" /\ calls[2].res = "raise"
    /\ robot.val = START_COORDS

(***************************************************************************)
(* C4, as stated: of the plain texts only "0" and "1" are gripper          *)
(* commands; every other plain text ("2", "01", a non-integer) and the     *)
(* bracketed "[1]" end the cycle Failed without a set_gripper_state call.  *)
(***************************************************************************)
C4_OnlyTokens0And1 ==
    (/\ Applied
     /\ (~IsBracketed(generated_cmd) \/ generated_cmd = <<"[", "1", "]">>)
     /\ generated_cmd \notin {<<"0">>, <<"1">>}) =>
        Failed /\ CallsOf("set_gripper_state") = <<>>

(***************************************************************************)
(* C5, as stated: a text that begins with '[' and ends with ']' yields a   *)
(* delta (the pose is read and the move is sent) exactly when what stands  *)
(* between those two brackets splits on commas into three segments that    *)
(* are numbers, whitespace and dash variants aside; otherwise the cycle    *)
(* ends Failed without a gateway call.                                     *)
(***************************************************************************)
Hyphenate(text) ==
    [i \in 1..Len(text) |-> IF text[i] \in {"ndash", "mdash"} THEN "-" ELSE text[i]]
BracketContent(text) == SubSeq(text, 2, Len(text) - 1)
NumberSegment(seg) == ParseFloat(Hyphenate(Strip(seg))).ok
ThreeNumbers(content) ==
    /\ Len(Split(content, ",")) = 3
    /\ \A i \in 1..3 : NumberSegment(Split(content, ",")[i])

C5_DeltaIffThreeNumbers ==
    (Applied /\ IsBracketed(generated_cmd)) =>
        /\ ThreeNumbers(BracketContent(generated_cmd)) <=> CallsOf("get_coords") # <<>>
        /\ CallsOf("get_coords") = <<>> => (Failed /\ calls = <<>>)

(***************************************************************************)
(* C6: a bracketed text in which en or em dashes stand for minus signs is  *)
(* handled as the same text written with ASCII minus signs: it is a delta  *)
(* exactly when that text is, the move goes to the read position plus      *)
(* that text's delta, and otherwise the cycle fails without a gateway call.*)
(***************************************************************************)
C6_DashNormalization ==
    (Applied /\ IsBracketed(generated_cmd)) =>
        LET ascii == Hyphenate(generated_cmd)
        IN  /\ ValidDelta(ascii) <=> CallsOf("get_coords") # <<>>
            /\ (ValidDelta(ascii) /\ current_coords # <<>>) =>
                  /\ Len(CallsOf("send_coords")) = 1
                  /\ SubSeq(CallsOf("send_coords")[1].args[1], 1, 3) =
                        <<current_coords[1] + Delta(ascii)[1],
                          current_coords[2] + Delta(ascii)[2],
                          current_coords[3] + Delta(ascii)[3]>>
            /\ ~ValidDelta(ascii) => (calls = <<>> /\ Failed)

\* [-40, en-dash 40, em-dash 40] moved the arm by (-40, -40, -40)
C6_Witness ==
    /\ Applied
    /\ \E i \in 1..Len(generated_cmd) : generated_cmd[i] = "ndash"
    /\ \E i \in 1..Len(generated_cmd) : generated_cmd[i] = "mdash"
    /\ Len(CallsOf("send_coords")) = 1
    /\ CallsOf("send_coords")[1].res = "ok"
    /\ SubSeq(robot.val, 1, 3) =
          <<current_coords[1] - 4000, current_coords[2] - 4000,
            current_coords[3] - 4000>>

(***************************************************************************)
(* C7: a validated gripper command (0 open, 1 close) gives exactly one     *)
(* gateway call, set_gripper_state with that state at GRIPPER_SPEED; the   *)
(* pose is neither read nor commanded.                                     *)
(***************************************************************************)
C7_GripperApplication ==
    (Applied /\ ValidGripper(generated_cmd)) =>
        /\ Len(calls) = 1
        /\ calls[1].op = "set_gripper_state"
        /\ calls[1].args = <<ParseInt(generated_cmd).val, 100>>
        /\ current_coords = <<>>

\* "1" closed the gripper
C7_Witness ==
    /\ Applied /\ generated_cmd = <<"1">>
    /\ calls = <<GwCall("set_gripper_state", <<1, 100>>, "ok")>>
    /\ Actuated

(***************************************************************************)
(* C8: interpret_command is called in a cycle exactly when the capture     *)
(* gave a buffer and the transcribed text has at least 3 characters; a     *)
(* shorter text (a transcription error gives the empty text) ends the      *)
(* cycle Failed, with no oracle call and no gateway call, at the prompt.   *)
(***************************************************************************)
TranscriptPasses ==
    audio = "buffer" /\ Ran("transcribe_audio") /\ Len(text_command) >= 3

C8_TranscriptGate ==
    /\ Ran("interpret_command") => TranscriptPasses
    /\ CycleEnded => (Ran("interpret_command") <=> TranscriptPasses)
    /\ (CycleEnded /\ Ran("transcribe_audio") /\ Len(text_command) < 3) =>
          (Failed /\ ~Ran("interpret_command") /\ calls = <<>>)

\* the transcript "hi" ended the cycle before the oracle
C8_Witness ==
    /\ Failed /\ text_command = <<"h", "i">>
    /\ stages = <<"record_audio", "transcribe_audio">>

(***************************************************************************)
(* C9: parse_and_apply_command is entered in a cycle exactly when          *)
(* interpret_command returned a non-empty text; when it returned None (the *)
(* call raised or timed out) or the empty text, the cycle ends Failed      *)
(* with no gateway call, at the prompt.                                    *)
(***************************************************************************)
OracleAnswered == Ran("interpret_command") /\ generated_cmd \notin {None, <<>>}

C9_OracleGate ==
    /\ Ran("parse_and_apply_command") => OracleAnswered
    /\ CycleEnded => (Ran("parse_and_apply_command") <=> OracleAnswered)
    /\ (CycleEnded /\ Ran("interpret_command") /\ generated_cmd \in {None, <<>>}) =>
          (Failed /\ calls = <<>>)

\* an empty reply ended the cycle before the application
C9_Witness ==
    /\ Failed /\ generated_cmd = <<>>
    /\ stages = <<"record_audio", "transcribe_audio", "interpret_command">>

(***************************************************************************)
(* C10, as stated: a line that is neither blank nor q (in either case) is  *)
(* a no-op: no stage runs and the session stays at the prompt.             *)
(***************************************************************************)
C10_OtherInputIsNoOp ==
    (/\ user_input # None
     /\ user_input # <<>>
     /\ Lower(user_input) # <<"q">>) =>
        pc = "prompt" /\ stages = <<>>

(***************************************************************************)
(* C11: the loop is left only from the prompt, by the operator's q: no     *)
(* stage of a cycle ends the session, a cycle always comes back to the     *)
(* prompt, and after a Failed cycle the prompt still starts a new cycle    *)
(* (as long as the model's cycle bound allows one).                        *)
(***************************************************************************)
CycleStages == {"record", "transcribe", "interpret", "apply"}
StartCycle == Prompt /\ pc' = "record"

C11_QuitOnlyByOperator ==
    /\ [][/\ pc' = "shutdown" => (pc = "prompt" /\ Lower(user_input') = <<"q">>)
          /\ pc \in CycleStages => pc' \in CycleStages \cup {"prompt"}
          /\ pc = "prompt" => pc' \in {"record", "shutdown"}]_vars
    /\ []((Failed /\ cycles < MaxCycles) => ENABLED StartCycle)

\* a second cycle was started after a cycle that failed on a short transcript
C11_Witness ==
    /\ pc = "transcribe" /\ cycles = 2
    /\ text_command = <<"h", "i">>

(***************************************************************************)
(* C12: after q the session issues exactly one gateway call, the joint     *)
(* command send_angles(ZERO_ANGLES, MOVE_SPEED), runs no pipeline stage    *)
(* and ends; when that call raises the session ends the same way.          *)
(***************************************************************************)
C12_ShutdownOnce ==
    /\ [](pc = "shutdown" => (calls = <<>> /\ stages = <<>>))
    /\ [](pc = "done" =>
            /\ Len(calls) = 1
            /\ calls[1].op = "send_angles"
            /\ calls[1].args = <<<<0, 0, 0, 0, 0, 0>>, 30>>
            /\ stages = <<>>)
    /\ [][(pc = "shutdown" => pc' = "done") /\ pc # "done"]_vars

\* q at the first prompt, and the return to zero raised
C12_Witness ==
    /\ pc = "done" /\ cycles = 0
    /\ calls = <<GwCall("send_angles", <<ZERO_ANGLES, MOVE_SPEED>>, "raise")>>
    /\ diag = "Error returning to zero position"

(***************************************************************************)
(* C13: the first prompt is reached only after the gateway calls connect,  *)
(* focus_all_servos, set_gripper_mode(0), send_angles(ZERO_ANGLES) and     *)
(* send_coords(START_COORDS), in this order, all returned; when a startup  *)
(* step raises, the session ends there: the raising call is its last       *)
(* gateway call, no prompt is shown and no cycle runs.                     *)
(***************************************************************************)
StartupCalls ==
    <<GwCall("MyCobot320Socket", <<>>, "ok"),
      GwCall("focus_all_servos", <<>>, "ok"),
      GwCall("set_gripper_mode", <<0>>, "ok"),
      GwCall("send_angles", <<<<0, 0, 0, 0, 0, 0>>, 30>>, "ok"),
      GwCall("send_coords", <<<<-32910, 10460, 17910, -17946, -669, 9557>>, 30, 1>>, "ok")>>

C13_StartupOrderAndAbort ==
    /\ []((pc = "prompt" /\ cycles = 0) => calls = StartupCalls)
    /\ [](pc = "exit" =>
            /\ cycles = 0 /\ stages = <<>> /\ user_input = None
            /\ Len(calls) \in 1..5
            /\ calls[Len(calls)].res = "raise"
            /\ \A i \in 1..(Len(calls) - 1) : calls[i] = StartupCalls[i]
            /\ calls[Len(calls)].op = StartupCalls[Len(calls)].op)
    /\ [][pc # "exit"]_vars

\* the move to the start pose raised after the zero position was reached
C13_Witness ==
    /\ pc = "exit" /\ Len(calls) = 5
    /\ calls[4] = StartupCalls[4]
    /\ calls[5].op = "send_coords" /\ calls[5].res = "raise"

(***************************************************************************)
(* C14: between two console reads each of record_audio, transcribe_audio,  *)
(* interpret_command and parse_and_apply_command runs at most once, in     *)
(* this order, and at most one send_coords or set_gripper_state is issued  *)
(* (never both); a finished cycle runs nothing more until the next read.   *)
(***************************************************************************)
Pipeline ==
    <<"record_audio", "transcribe_audio", "interpret_command",
      "parse_and_apply_command">>

C14_NoAutomaticRetry ==
    /\ [](/\ Len(stages) <= 4
          /\ stages = SubSeq(Pipeline, 1, Len(stages))
          /\ cycles > 0 => Len(Actuations) <= 1)
    /\ [][pc = "prompt" => (stages' = <<>> /\ calls' = <<>>)]_vars

\* a cycle ran the whole pipeline once and sent one move that raised
C14_Witness ==
    /\ Failed /\ stages = Pipeline
    /\ Len(Actuations) = 1 /\ Actuations[1].op = "send_coords"

(***************************************************************************)
(* C17: a bracketed text is a delta only when the text between its first   *)
(* and its last character is three comma-separated numbers; every other    *)
(* bracketed text, such as "[[1,2,3]]" and "[1,2,3]]", ends the cycle      *)
(* Failed with no send_coords call.                                        *)
(***************************************************************************)
C17_ExtraBracketsRejected ==
    (Applied /\ IsBracketed(generated_cmd)
             /\ ~ThreeNumbers(BracketContent(generated_cmd))) =>
        (Failed /\ CallsOf("send_coords") = <<>>)

(***************************************************************************)
(* C18: every send_coords call of the session, the startup move as well as *)
(* every delta move, carries the orientation (-179.46, -6.69, 95.57),      *)
(* whatever orientation the gateway reported and whatever the oracle wrote.*)
(***************************************************************************)
FixedOrientation == <<-17946, -669, 9557>>
OrientationOf(c) == SubSeq(c.args[1], 4, 6)

C18_OrientationPinned ==
    \A i \in 1..Len(calls) :
        calls[i].op = "send_coords" =>
            /\ Len(calls[i].args[1]) = 6
            /\ OrientationOf(calls[i]) = FixedOrientation

\* a delta move was sent after the gateway reported another orientation
C18_Witness ==
    /\ Applied /\ ValidDelta(generated_cmd)
    /\ Len(current_coords) = 6
    /\ SubSeq(current_coords, 4, 6) # FixedOrientation
    /\ CallsOf("send_coords") # <<>>

(***************************************************************************)
(* C15: an application reads the pose only for a text that parsed as a     *)
(* delta, as its first gateway call, and sends the pose the arm has at     *)
(* that moment (not one read in an earlier cycle) plus the delta.  So the  *)
(* arm stands at START_COORDS plus the sum of the accepted deltas plus     *)
(* whatever it was displaced by from outside: with no outside change the   *)
(* commanded position is START_COORDS + d1 + ... + dn, and after an        *)
(* outside change the next target starts from the changed pose.            *)
(***************************************************************************)
ArmPosition == VecAdd(Position(robot.val), pushed)
SentPosition(cs) == Position(cs[Len(cs)].args[1])

C15_PoseReadEveryCycle ==
    /\ [](robot.kind = "coords" =>
            ArmPosition = VecAdd(VecAdd(Position(START_COORDS), deltas), pushes))
    /\ []((robot.kind = "coords" /\ pushes = Zero3) =>
            Position(robot.val) = VecAdd(Position(START_COORDS), deltas))
    /\ []((Applied /\ CallsOf("get_coords") # <<>>) =>
            /\ ValidDelta(generated_cmd)
            /\ calls[1].op = "get_coords"
            /\ CallsOf("send_coords") # <<>> =>
                  /\ Len(calls) = 2 /\ calls[2].op = "send_coords"
                  /\ SentPosition(calls) =
                        VecAdd(Position(current_coords), Delta(generated_cmd)))
    /\ [][(pc = "apply" /\ CallsOf("send_coords")' # <<>>) =>
            /\ Position(current_coords') = ArmPosition
            /\ SentPosition(calls') = VecAdd(ArmPosition, Delta(generated_cmd))]_vars

\* the second accepted move of a session, made after the arm was displaced
C15_Witness ==
    /\ cycles = 2 /\ Applied /\ ~Failed
    /\ ValidDelta(generated_cmd)
    /\ pushes # Zero3 /\ pushed = Zero3
    /\ deltas # Delta(generated_cmd)
    /\ Position(robot.val) # VecAdd(Position(START_COORDS), deltas)

(***************************************************************************)
(* C16: when every external call returns or raises, a cycle that has left  *)
(* the prompt comes back to the prompt, whatever its outcome, and a        *)
(* session whose operator entered q terminates.                            *)
(***************************************************************************)
C16_CycleLiveness ==
    /\ (pc \in CycleStages) ~> (pc = "prompt")
    /\ (pc = "shutdown") ~> (pc = "done")

\* a session that ran two cycles, the last one to the application, and ended
C16_Witness ==
    /\ pc = "done" /\ cycles = 2
    /\ stages = <<>> /\ current_coords # <<>>
    /\ Len(calls) = 1

(***************************************************************************)
(* C19: for the same outcomes of microphone, transcriber and oracle,       *)
(* test.py prints the final command exactly when a cycle of Voice.py       *)
(* enters parse_and_apply_command, and it prints the text Voice.py would   *)
(* apply; it runs each stage at most once, in the order of the cycle,      *)
(* ends after this one pass on every outcome and makes no gateway call.    *)
(***************************************************************************)
VoiceEntersApply(o) ==
    /\ o.rec = "ok"
    /\ ~TooShort(transcribe_audio(o.tr, o.text))
    /\ ~Falsy(interpret_command(o.orc, o.content))

DryPrinted == pc = "dry_done" /\ diag = "Final constructed MyCobot command"

C19_DryRunSameGating ==
    /\ [](pc = "dry_done" => (DryPrinted <=> VoiceEntersApply(outcomes)))
    /\ [](pc = "dry_print" =>
            /\ VoiceEntersApply(outcomes)
            /\ robot_command = interpret_command(outcomes.orc, outcomes.content))
    /\ [](calls = <<>> /\ robot.kind = "unknown")
    /\ [](Len(stages) <= 3 /\ stages = SubSeq(Pipeline, 1, Len(stages)))
    /\ [][pc # "dry_done"]_vars
    /\ <>(pc = "dry_done")

\* the pass printed a bracketed command
C19_Witness ==
    /\ DryPrinted
    /\ IsBracketed(robot_command)
    /\ stages = SubSeq(Pipeline, 1, 3)

====
